---- MODULE Spec2Model ----
(***************************************************************************)
(* A model of the task tracker: the tasks table (models/task.py), its      *)
(* query helpers, and the HTTP handlers of controllers/task_controller.py. *)
(*                                                                         *)
(* Time.  A datetime is an integer number of ticks; TicksPerSec ticks make *)
(* a second (the sub-second part stands for the microseconds) and          *)
(* SecsPerDay seconds make a calendar day.  Every datetime of the program  *)
(* carries the one LOCAL_TZ object, so Python compares two of them by      *)
(* their wall-clock fields, which is the comparison of the tick numbers.   *)
(*                                                                         *)
(* Optional values.  Python's None and SQL's NULL are the empty set, a     *)
(* present value v is the set {v}.                                         *)
(*                                                                         *)
(* Strings.  Form fields are tuples of characters; a stored due date is    *)
(* the tuple of decimal digits strftime writes.  The days of the model are *)
(* days of four-digit years, whose fields strftime pads to a fixed width.  *)
(***************************************************************************)
EXTENDS Integers, Sequences, FiniteSets, TLC

\* ---------------------------------------------------------------- bounds
MaxTasks == 2       \* rows the table holds at most, and the ids 1..MaxTasks
FirstDay == 9       \* number of the first calendar day of the model
NumDays == 2        \* calendar days the clock runs through
SecsPerDay == 2     \* seconds of a model day
TicksPerSec == 2    \* sub-second instants of a model second

None == {}
Some(v) == {v}
Get(o) == CHOOSE v \in o : TRUE

TicksPerDay == SecsPerDay * TicksPerSec
Days == FirstDay .. (FirstDay + NumDays - 1)
FirstTick == FirstDay * TicksPerDay
LastTick == (FirstDay + NumDays) * TicksPerDay - 1
Ids == 1 .. MaxTasks

\* ---------------------------------------------------------------- datetime
\* datetime.replace(microsecond=0)
replace_microsecond_0(dt) == dt - (dt % TicksPerSec)

\* a slip: the validation compares the datetimes, not their days
date_with_time(dt) == dt

\* datetime.date(): the calendar day of a datetime
date(dt) == dt \div TicksPerDay

\* datetime.strftime('%Y-%m-%d %H:%M:%S'): the day and the second of the day,
\* each as two zero-padded decimal digits; the sub-second part is not written.
strftime(dt) ==
    LET d == dt \div TicksPerDay
        s == (dt % TicksPerDay) \div TicksPerSec
    IN  << d \div 10, d % 10, s \div 10, s % 10 >>

\* datetime.fromisoformat / strptime('%Y-%m-%d %H:%M:%S') of a stored string
strptime(s) == (s[1] * 10 + s[2]) * TicksPerDay + (s[3] * 10 + s[4]) * TicksPerSec

\* The comparison of two TEXT values in SQL: lexicographic, character by character.
RECURSIVE StrLess(_, _)
StrLess(a, b) ==
    IF b = << >> THEN FALSE
    ELSE IF a = << >> THEN TRUE
    ELSE IF Head(a) # Head(b) THEN Head(a) < Head(b)
    ELSE StrLess(Tail(a), Tail(b))

\* DateTimeWithoutMicroseconds.process_bind_param for a datetime (or None):
\* the value is already in LOCAL_TZ, so astimezone leaves its fields alone.
process_bind_param(value) ==
    IF value = None THEN None
    ELSE Some(strftime(replace_microsecond_0(Get(value))))

\* DateTimeWithoutMicroseconds.process_result_value
process_result_value(value) ==
    IF value = None THEN None
    ELSE Some(strptime(Get(value)))

\* ---------------------------------------------------------------- strings
IsSpace(c) == c = " "

\* a slip: the field is used as typed
strip_nothing(s) == s

RECURSIVE lstrip(_)
lstrip(s) == IF s # << >> /\ IsSpace(Head(s)) THEN lstrip(Tail(s)) ELSE s

\* a slip: blanks at the end are kept
rstrip_nothing(s) == s

RECURSIVE rstrip(_)
rstrip(s) ==
    IF s # << >> /\ IsSpace(s[Len(s)]) THEN rstrip(SubSeq(s, 1, Len(s) - 1)) ELSE s

\* str.strip()
strip(s) == rstrip(lstrip(s))

\* ---------------------------------------------------------------- form fields
\* (request.form.get(k) or ''): a missing field reads as the empty string
form_get(field) == IF field = None THEN << >> ELSE Get(field)

\* a slip: only the browser's own value of a checked box counts
checkbox_on_only(completed_val) == completed_val = Some("on")

\* completed_val in ('on', 'true', '1', 'yes')
checkbox(completed_val) ==
    completed_val # None /\ Get(completed_val) \in {"on", "true", "1", "yes"}

\* A due-date field is the text of one date in one of the formats the parser
\* knows ("%Y-%m-%d": a date alone; "%Y-%m-%d %H:%M:%S.%f": date, time of day and
\* fraction of a second), the empty text, blanks only, or text in no known format.
DueFormats == {"%Y-%m-%d", "%Y-%m-%d %H:%M:%S.%f"}
DueText(fmt, day, sec, frac) == [fmt |-> fmt, day |-> day, sec |-> sec, frac |-> frac]
EmptyDue == DueText("", 0, 0, 0)
BlankDue == DueText(" ", 0, 0, 0)
GarbageDue == DueText("?", 0, 0, 0)

\* due_date_str = (request.form.get('due_date') or '').strip()
due_strip(field) ==
    IF field = None THEN EmptyDue
    ELSE IF Get(field) = BlankDue THEN EmptyDue
    ELSE Get(field)

\* _parse_due_date_flexible: None for the empty text and for text in no known
\* format; otherwise the datetime read, with microsecond=0 and LOCAL_TZ.
parse_due_date_flexible(date_str) ==
    IF date_str = EmptyDue THEN None
    ELSE IF date_str.fmt = "%Y-%m-%d" THEN Some(date_str.day * TicksPerDay)
    ELSE IF date_str.fmt = "%Y-%m-%d %H:%M:%S.%f"
        THEN Some(replace_microsecond_0(
                 date_str.day * TicksPerDay + date_str.sec * TicksPerSec + date_str.frac))
    ELSE None

\* ---------------------------------------------------------------- state
VARIABLES
    tasks,      \* the rows of table 'tasks': id -> [title, description, completed, due_date]
    clock,      \* the local wall clock, datetime.now(LOCAL_TZ), in ticks
    response,   \* what the last request answered
    date_str,   \* the text a call of _parse_due_date_flexible is given
    parsed,     \* what that call returned or raised
    dst         \* daylight saving time is in effect in LOCAL_TZ

vars == << tasks, clock, response, date_str, parsed, dst >>

\* the variables of a call of the parser on its own
call == << date_str, parsed >>

\* Task.__init__ followed by the INSERT: due_date goes through process_bind_param
Task(title, description, due_date) ==
    [title |-> title, description |-> description,
     due_date |-> process_bind_param(due_date), completed |-> FALSE]

\* the object the ORM loads from a row: due_date comes through process_result_value
Load(row) == [row EXCEPT !.due_date = process_result_value(@)]

\* a slip: the current time is not truncated to the second
is_overdue_untruncated(self, now) ==
    IF self.due_date = None THEN FALSE
    ELSE IF self.completed THEN FALSE
    ELSE Get(self.due_date) < now

\* Task.is_overdue(self), with datetime.now(LOCAL_TZ) = now
is_overdue(self, now) ==
    IF self.due_date = None THEN FALSE
    ELSE IF self.completed THEN FALSE
    ELSE Get(self.due_date) < replace_microsecond_0(now)

\* slips: a task due at the current second counts as overdue, or as not pending
sql_due_le(row, now) ==
    row.due_date # None /\ ~StrLess(Get(process_bind_param(Some(now))), Get(row.due_date))

sql_due_gt(row, now) ==
    row.due_date # None /\ StrLess(Get(process_bind_param(Some(now))), Get(row.due_date))

\* SQL: Task.due_date < :now and Task.due_date >= :now, the bound value going
\* through process_bind_param; a comparison with NULL selects nothing.
sql_due_lt(row, now) ==
    row.due_date # None /\ StrLess(Get(row.due_date), Get(process_bind_param(Some(now))))

sql_due_ge(row, now) ==
    row.due_date # None /\ ~StrLess(Get(row.due_date), Get(process_bind_param(Some(now))))

\* The query helpers return the rows selected; order_by only orders them, and a
\* result is modelled as the set of the ids returned.
SortKeys == {"date", "title", "created", "other"}
Filters == {"all", "pending", "completed", "overdue", "other"}

get_all_tasks(rows, order_by) == DOMAIN rows

get_completed_tasks(rows, order_by) == {i \in DOMAIN rows : rows[i].completed = TRUE}

get_pending_tasks(rows, now, order_by) ==
    {i \in DOMAIN rows :
        rows[i].completed = FALSE /\ (rows[i].due_date = None \/ sql_due_ge(rows[i], now))}

get_overdue_tasks(rows, now, order_by) ==
    {i \in DOMAIN rows : rows[i].completed = FALSE /\ sql_due_lt(rows[i], now)}

get_pending_tasks_count(rows, now) ==
    Cardinality({i \in DOMAIN rows :
        rows[i].completed = FALSE /\ (rows[i].due_date = None \/ sql_due_ge(rows[i], now))})

\* a slip: the count takes every task with a due date in the past, completed or not
get_overdue_tasks_count_any(rows, now) ==
    Cardinality({i \in DOMAIN rows : sql_due_lt(rows[i], now)})

get_overdue_tasks_count(rows, now) ==
    Cardinality({i \in DOMAIN rows : rows[i].completed = FALSE /\ sql_due_lt(rows[i], now)})

get_completed_tasks_count(rows) ==
    Cardinality({i \in DOMAIN rows : rows[i].completed = TRUE})

\* ---------------------------------------------------------------- requests
\* the values a form may carry in each field
TitleFields == {Some(<< >>), Some(<< " " >>), Some(<< "a" >>), Some(<< " ", "a", " " >>)}
DescriptionFields == {None, Some(<< " ", "d" >>)}
CompletedFields == {None} \cup {Some(v) : v \in {"on", "true", "1", "yes", "off"}}
DueFields ==
    {None, Some(GarbageDue)}
    \cup {Some(DueText("%Y-%m-%d", d, 0, 0)) : d \in Days}
    \cup {Some(DueText("%Y-%m-%d %H:%M:%S.%f", d, s, TicksPerSec - 1)) :
            d \in Days, s \in 1 .. (SecsPerDay - 1)}
Forms == [title : TitleFields, description : DescriptionFields,
          due_date : DueFields, completed : CompletedFields]

\* the flashed messages, written without their accents
TitleRequired == "El titulo es obligatorio."
BadDateFormat == "Formato de fecha invalido."
PastDate == "La fecha de vencimiento no puede ser de dias anteriores."
Created == "Tarea creada correctamente."
Updated == "Tarea actualizada correctamente."
Deleted == "Tarea eliminada correctamente."
MarkedCompleted == "Tarea marcada como completada."
MarkedPending == "Tarea marcada como pendiente."

\* a response names the task it is about (0: none) and the ids it lists
Response(op, status, flash, task_id, ids) ==
    [op |-> op, status |-> status, flash |-> flash, task_id |-> task_id, ids |-> ids]

\* no request is being answered
Idle == Response("", 0, "", 0, {})

\* Task.query.get_or_404(task_id) found no row: the 404 page
NotFound(op, task_id) ==
    /\ task_id \notin DOMAIN tasks
    /\ response' = Response(op, 404, "", task_id, {})
    /\ UNCHANGED << tasks, clock >>

\* a handler that renders the form again with an error and commits nothing
Reject(op, flash, task_id) ==
    /\ response' = Response(op, 200, flash, task_id, {})
    /\ UNCHANGED << tasks, clock >>

\* POST /tasks/new
task_create(form) ==
    LET title == strip(form_get(form.title))
        description == strip(form_get(form.description))
        due_date_str == due_strip(form.due_date)
        completed == checkbox(form.completed)
        due_date == parse_due_date_flexible(due_date_str)
        now == replace_microsecond_0(clock)
    IN  IF title = << >> THEN Reject("task_create", TitleRequired, 0)
        ELSE IF due_date_str # EmptyDue /\ due_date = None
            THEN Reject("task_create", BadDateFormat, 0)
        ELSE IF due_date # None /\ date(Get(due_date)) < date(now)
            THEN Reject("task_create", PastDate, 0)
        ELSE \E id \in Ids \ DOMAIN tasks :
                LET task == [Task(title, IF description = << >> THEN None ELSE Some(description),
                                  due_date) EXCEPT !.completed = completed]
                IN  /\ tasks' = (id :> task) @@ tasks
                    /\ response' = Response("task_create", 302, Created, id, {})
                    /\ UNCHANGED clock

\* POST /tasks/<task_id>/edit
task_edit(task_id, form) ==
    LET title == strip(form_get(form.title))
        description == strip(form_get(form.description))
        due_date_str == due_strip(form.due_date)
        completed == checkbox(form.completed)
        due_date == parse_due_date_flexible(due_date_str)
    IN  IF task_id \notin DOMAIN tasks THEN NotFound("task_edit", task_id)
        ELSE IF title = << >> THEN Reject("task_edit", TitleRequired, task_id)
        ELSE IF due_date_str # EmptyDue /\ due_date = None
            THEN Reject("task_edit", BadDateFormat, task_id)
        ELSE /\ tasks' = [tasks EXCEPT ![task_id] =
                            [title |-> title,
                             description |-> IF description = << >> THEN None ELSE Some(description),
                             due_date |-> process_bind_param(due_date),
                             completed |-> completed]]
             /\ response' = Response("task_edit", 302, Updated, task_id, {})
             /\ UNCHANGED clock

\* a slip: the task is marked instead of removed
task_delete_soft(task_id, xhr) ==
    IF task_id \notin DOMAIN tasks THEN NotFound("task_delete", task_id)
    ELSE /\ tasks' = [tasks EXCEPT ![task_id].completed = TRUE]
         /\ response' = Response("task_delete", IF xhr THEN 200 ELSE 302, Deleted, task_id, {})
         /\ UNCHANGED clock

\* POST /tasks/<task_id>/delete; xhr: the request carries X-Requested-With
task_delete(task_id, xhr) ==
    IF task_id \notin DOMAIN tasks THEN NotFound("task_delete", task_id)
    ELSE /\ tasks' = [i \in DOMAIN tasks \ {task_id} |-> tasks[i]]
         /\ response' = Response("task_delete", IF xhr THEN 200 ELSE 302, Deleted, task_id, {})
         /\ UNCHANGED clock

\* a slip: the toggle marks the task completed whatever it was
toggled_mark_completed(rows, task_id) == [rows EXCEPT ![task_id].completed = TRUE]

\* was_completed = task.completed; task.completed = not was_completed; commit
toggled(rows, task_id) ==
    LET was_completed == rows[task_id].completed
    IN  [rows EXCEPT ![task_id].completed = ~was_completed]

\* POST /tasks/<task_id>/toggle
task_toggle(task_id, xhr) ==
    IF task_id \notin DOMAIN tasks THEN NotFound("task_toggle", task_id)
    ELSE LET was_completed == tasks[task_id].completed
         IN  /\ tasks' = toggled(tasks, task_id)
             /\ response' = Response("task_toggle", IF xhr THEN 200 ELSE 302,
                                     IF ~was_completed THEN MarkedCompleted ELSE MarkedPending,
                                     task_id, {})
             /\ UNCHANGED clock

\* the branch on filter_type shared by task_list and api_tasks
Listing(rows, now, filter_type, sort_by) ==
    IF filter_type = "pending" THEN get_pending_tasks(rows, now, sort_by)
    ELSE IF filter_type = "completed" THEN get_completed_tasks(rows, sort_by)
    ELSE IF filter_type = "overdue" THEN get_overdue_tasks(rows, now, sort_by)
    ELSE get_all_tasks(rows, sort_by)

\* GET /tasks
task_list(filter_type, sort_by) ==
    /\ response' = Response("task_list", 200, "", 0, Listing(tasks, clock, filter_type, sort_by))
    /\ UNCHANGED << tasks, clock >>

\* a slip: the listing drops the completed tasks from the table
api_tasks_purging(filter_type, sort_by) ==
    /\ response' = Response("api_tasks", 200, "", 0, Listing(tasks, clock, filter_type, sort_by))
    /\ tasks' = [i \in {j \in DOMAIN tasks : ~tasks[j].completed} |-> tasks[i]]
    /\ UNCHANGED clock

\* GET /api/tasks
api_tasks(filter_type, sort_by) ==
    /\ response' = Response("api_tasks", 200, "", 0, Listing(tasks, clock, filter_type, sort_by))
    /\ UNCHANGED << tasks, clock >>

\* GET /tasks/<task_id>
task_detail(task_id) ==
    IF task_id \notin DOMAIN tasks THEN NotFound("task_detail", task_id)
    ELSE /\ response' = Response("task_detail", 200, "", task_id, {task_id})
         /\ UNCHANGED << tasks, clock >>

\* the response reaches the client; the server takes the next request
send_response ==
    /\ response # Idle
    /\ response' = Idle
    /\ UNCHANGED << tasks, clock >>

\* the wall clock moves on between requests (no daylight-saving step is modelled)
Tick ==
    /\ response = Idle
    /\ clock < LastTick
    /\ clock' = clock + 1
    /\ UNCHANGED << tasks, response >>

\* the parser has not been called on its own
NotCalled == [called |-> FALSE, raised |-> FALSE, value |-> None]

Init ==
    /\ tasks = << >>
    /\ clock = FirstTick
    /\ response = Idle
    /\ date_str = None
    /\ parsed = NotCalled
    /\ dst = TRUE

\* one request is handled at a time
Next ==
    \/ \E form \in Forms : response = Idle /\ task_create(form) /\ UNCHANGED << call, dst >>
    \/ \E task_id \in Ids, form \in Forms :
            response = Idle /\ task_edit(task_id, form) /\ UNCHANGED << call, dst >>
    \/ \E task_id \in Ids, xhr \in BOOLEAN :
            response = Idle /\ task_delete(task_id, xhr) /\ UNCHANGED << call, dst >>
    \/ \E task_id \in Ids, xhr \in BOOLEAN :
            response = Idle /\ task_toggle(task_id, xhr) /\ UNCHANGED << call, dst >>
    \/ \E filter_type \in Filters, sort_by \in SortKeys :
            response = Idle /\ task_list(filter_type, sort_by) /\ UNCHANGED << call, dst >>
    \/ \E filter_type \in Filters, sort_by \in SortKeys :
            response = Idle /\ api_tasks(filter_type, sort_by) /\ UNCHANGED << call, dst >>
    \/ \E task_id \in Ids : response = Idle /\ task_detail(task_id) /\ UNCHANGED << call, dst >>
    \/ send_response /\ UNCHANGED << call, dst >>
    \/ Tick /\ UNCHANGED << call, dst >>

Spec == Init /\ [][Next]_vars

\* Daylight saving time ends in America/Chicago: as the wall clock is about to
\* reach the hour of the change, datetime.now(LOCAL_TZ) reads one hour earlier,
\* on the same date, and goes on from there.  The hour is two model seconds.
fall_back ==
    /\ response = Idle
    /\ dst
    /\ (clock + 1) % TicksPerSec = 0
    /\ (clock + 1 - 2 * TicksPerSec) \div TicksPerDay = clock \div TicksPerDay
    /\ clock' = clock + 1 - 2 * TicksPerSec
    /\ dst' = FALSE
    /\ UNCHANGED << tasks, response >>

\* the requests and the clock, on the days around the end of daylight saving time
NextDST ==
    \/ Next
    \/ fall_back /\ UNCHANGED call

SpecDST == Init /\ [][NextDST]_vars

\* ---------------------------------------------------------------- properties
\* every instant of the model's clock
Times == FirstTick .. LastTick

\* the whole second an instant lies in
SecondOf(now) == now \div TicksPerSec

\* the second a stored due date names: its day and second-of-day digits
DueSecond(row) ==
    LET s == Get(row.due_date)
    IN  (10 * s[1] + s[2]) * SecsPerDay + (10 * s[3] + s[4])

\* C1: is_overdue() is True exactly when the task has a due date, is not
\* completed and its due date is strictly earlier than the current local time
\* truncated to seconds; it is False without a due date and for a completed task.
C1_IsOverdue ==
    \A i \in DOMAIN tasks : \A now \in {clock} :
        LET row == tasks[i]
        IN  /\ is_overdue(Load(row), now) <=>
                  (row.due_date # None /\ ~row.completed /\ DueSecond(row) < SecondOf(now))
            /\ (row.due_date = None \/ row.completed) => ~is_overdue(Load(row), now)

\* an overdue task, a completed task whose due date has passed, and a task
\* without a due date are stored
C1_Witness ==
    /\ \E i \in DOMAIN tasks : is_overdue(Load(tasks[i]), clock)
    /\ \E i \in DOMAIN tasks :
          \/ tasks[i].completed /\ tasks[i].due_date # None
                /\ DueSecond(tasks[i]) < SecondOf(clock)
          \/ tasks[i].due_date = None

C3_Partition ==
    \A now \in {clock} :
        /\ \A i \in DOMAIN tasks :
              Cardinality({c \in {"pending", "completed", "overdue"} :
                              i \in Listing(tasks, now, c, "created")}) = 1
        /\ get_pending_tasks_count(tasks, now) + get_completed_tasks_count(tasks)
              + get_overdue_tasks_count(tasks, now) = Cardinality(DOMAIN tasks)

\* the table is full and holds an overdue task and one that is not overdue
C3_Witness ==
    /\ Cardinality(DOMAIN tasks) = MaxTasks
    /\ get_overdue_tasks_count(tasks, clock) = 1

\* the handlers that only read
ReadOps == {"api_tasks", "task_list", "task_detail"}

\* C4: GET /api/tasks, GET /tasks and GET /tasks/<id> are read-only: whatever
\* the filter and sort parameters, the set of stored tasks and every field of
\* every task are as before the request.
C4_ReadOnly ==
    [][(response = Idle /\ response'.op \in ReadOps) => tasks' = tasks]_vars

\* GET /api/tasks answered with a filtered listing that leaves out a stored task
C4_Witness ==
    /\ response.op = "api_tasks"
    /\ response.ids # {}
    /\ response.ids # DOMAIN tasks

\* C8: a toggle of an existing task inverts its completed flag and leaves its
\* title, description and due date and every other task as they were; a second
\* toggle of the same task restores the flag; a toggle of an id that is not
\* stored answers 404 and changes nothing.
C8_Toggle ==
    [][(response = Idle /\ response'.op = "task_toggle") =>
            LET id == response'.task_id
            IN  IF id \in DOMAIN tasks
                THEN /\ response'.status # 404
                     /\ DOMAIN tasks' = DOMAIN tasks
                     /\ tasks'[id].completed = ~tasks[id].completed
                     /\ tasks'[id].title = tasks[id].title
                     /\ tasks'[id].description = tasks[id].description
                     /\ tasks'[id].due_date = tasks[id].due_date
                     /\ \A j \in DOMAIN tasks \ {id} : tasks'[j] = tasks[j]
                     /\ toggled(tasks', id) = tasks
                ELSE /\ response'.status = 404
                     /\ tasks' = tasks]_vars

\* a task with a due date, beside another task, was toggled to completed
C8_Witness ==
    /\ response.op = "task_toggle"
    /\ response.status # 404
    /\ Cardinality(DOMAIN tasks) > 1
    /\ tasks[response.task_id].completed
    /\ tasks[response.task_id].due_date # None

\* C9: a delete of an existing task removes exactly that task, which then is in
\* no listing, and leaves every other task as it was; a delete of an id that is
\* not stored answers 404 and removes nothing.
C9_Delete ==
    [][(response = Idle /\ response'.op = "task_delete") =>
            LET id == response'.task_id
            IN  IF id \in DOMAIN tasks
                THEN /\ response'.status # 404
                     /\ DOMAIN tasks' = DOMAIN tasks \ {id}
                     /\ \A j \in DOMAIN tasks \ {id} : tasks'[j] = tasks[j]
                     /\ \A f \in Filters, o \in SortKeys, now \in Times :
                            id \notin Listing(tasks', now, f, o)
                ELSE /\ response'.status = 404
                     /\ tasks' = tasks]_vars

\* a task was deleted and another one is still stored
C9_Witness ==
    /\ response.op = "task_delete"
    /\ response.status # 404
    /\ response.task_id \notin DOMAIN tasks
    /\ tasks # << >>

\* C10: is_overdue() of a stored task is True exactly when the task is in the
\* result of get_overdue_tasks(), and get_overdue_tasks_count() is the length
\* of that result.
C10_OverdueAgree ==
    \A order_by \in SortKeys :
        /\ \A i \in DOMAIN tasks :
              is_overdue(Load(tasks[i]), clock) <=> i \in get_overdue_tasks(tasks, clock, order_by)
        /\ get_overdue_tasks_count(tasks, clock)
              = Cardinality(get_overdue_tasks(tasks, clock, order_by))

\* one task is overdue and listed so, another is due at the very second of the
\* clock, which is past its start, and is not
C10_Witness ==
    /\ \E i \in DOMAIN tasks :
          is_overdue(Load(tasks[i]), clock) /\ i \in get_overdue_tasks(tasks, clock, "title")
    /\ \E i \in DOMAIN tasks :
          /\ ~tasks[i].completed /\ tasks[i].due_date # None
          /\ DueSecond(tasks[i]) = SecondOf(clock)
          /\ clock % TicksPerSec # 0

\* a form field that is missing, empty or blanks only
AllBlank(field) ==
    field = None \/ \A k \in 1 .. Len(Get(field)) : Get(field)[k] = " "

\* text is the field's text without the blanks around it
IsStripOf(text, field) ==
    /\ text # << >>
    /\ text[1] # " " /\ text[Len(text)] # " "
    /\ \E a \in 0 .. Len(Get(field)) :
          /\ a + Len(text) <= Len(Get(field))
          /\ SubSeq(Get(field), a + 1, a + Len(text)) = text
          /\ \A k \in 1 .. Len(Get(field)) :
                (k <= a \/ k > a + Len(text)) => Get(field)[k] = " "

\* a due-date field that holds a date in a known format
HasDate(field) == field # None /\ Get(field).fmt \in DueFormats

\* C5: a POST to /tasks/new or /tasks/<id>/edit whose title is empty or only
\* whitespace is answered with the error 'El titulo es obligatorio.' and changes
\* nothing: no task is added, and an edited task keeps all its fields.
C5_BlankTitleRejected ==
    response = Idle =>
        \A form \in Forms :
            AllBlank(form.title) =>
                /\ ENABLED task_create(form)
                /\ ~ENABLED (task_create(form)
                             /\ ~(tasks' = tasks /\ response'.flash = TitleRequired))
                /\ \A id \in DOMAIN tasks :
                      /\ ENABLED task_edit(id, form)
                      /\ ~ENABLED (task_edit(id, form)
                                   /\ ~(tasks' = tasks /\ response'.flash = TitleRequired))

\* an edit of a stored task was refused for its title
C5_Witness ==
    /\ response.op = "task_edit"
    /\ response.flash = TitleRequired
    /\ response.task_id \in DOMAIN tasks

\* C6: a create request whose due date is on a calendar day before the current
\* local day is rejected and adds no task; a due date on the current local day
\* is accepted, also when its time of day has passed.
C6_CreateDueDay ==
    response = Idle =>
        \A form \in Forms :
            (~AllBlank(form.title) /\ HasDate(form.due_date)) =>
                LET day == Get(form.due_date).day
                    today == clock \div TicksPerDay
                IN  /\ day < today =>
                          /\ ENABLED task_create(form)
                          /\ ~ENABLED (task_create(form)
                                       /\ ~(tasks' = tasks /\ response'.flash = PastDate))
                    /\ (day = today /\ DOMAIN tasks # Ids) =>
                          /\ ENABLED task_create(form)
                          /\ ~ENABLED (task_create(form)
                                       /\ ~(/\ response'.status = 302
                                            /\ Cardinality(DOMAIN tasks')
                                                  = Cardinality(DOMAIN tasks) + 1))

\* a task was created whose due date, earlier on the day of the request, had passed
C6_Witness ==
    /\ response.op = "task_create"
    /\ response.status = 302
    /\ response.task_id \in DOMAIN tasks
    /\ ~tasks[response.task_id].completed
    /\ tasks[response.task_id].due_date # None
    /\ DueSecond(tasks[response.task_id]) < SecondOf(clock)
    /\ DueSecond(tasks[response.task_id]) \div SecsPerDay = clock \div TicksPerDay

\* what a create request that succeeded leaves behind, for the form it carried
CreatedAsSubmitted(form) ==
    \E id \in Ids \ DOMAIN tasks :
        /\ response'.task_id = id
        /\ DOMAIN tasks' = DOMAIN tasks \cup {id}
        /\ \A j \in DOMAIN tasks : tasks'[j] = tasks[j]
        /\ IsStripOf(tasks'[id].title, form.title)
        /\ IF AllBlank(form.description) THEN tasks'[id].description = None
           ELSE /\ tasks'[id].description # None
                /\ IsStripOf(Get(tasks'[id].description), form.description)
        /\ IF HasDate(form.due_date)
           THEN /\ tasks'[id].due_date # None
                /\ DueSecond(tasks'[id])
                      = Get(form.due_date).day * SecsPerDay + Get(form.due_date).sec
           ELSE tasks'[id].due_date = None
        /\ tasks'[id].completed
              = (form.completed \in {Some("on"), Some("true"), Some("1"), Some("yes")})

\* C7: a create request that succeeds adds exactly one task under a new id,
\* leaves every stored task as it was, and stores the submitted title (without
\* the blanks around it), the description (None when empty), the due date read
\* from the form, and completed = True exactly for 'on', 'true', '1', 'yes'.
C7_CreateStores ==
    response = Idle =>
        \A form \in Forms :
            ~ENABLED (task_create(form) /\ response'.status = 302 /\ ~CreatedAsSubmitted(form))

\* a second task was created, completed from the start, with a due date and no description
C7_Witness ==
    /\ response.op = "task_create"
    /\ response.status = 302
    /\ Cardinality(DOMAIN tasks) > 1
    /\ tasks[response.task_id].completed
    /\ tasks[response.task_id].description = None
    /\ tasks[response.task_id].due_date # None

\* ---------------------------------------------------------------- the parser on its text
\* The text of a due date, by what is typed: the shape it is written in, the
\* day of the month (of February 2025), the hour, the minute, the fraction of
\* a second, and the AM/PM marker after the time.  Shapes "", " " and "?" are
\* the empty text, blanks only, and text in no shape the parser knows.
DateShapes == {"%Y-%m-%d", "%d/%m/%Y"}
TimeShapes == {"%Y-%m-%dT%H:%M", "%d/%m/%Y %H:%M", "%Y-%m-%d %H:%M:%S", "%Y-%m-%d %H:%M:%S.%f"}
Markers == {"", "AM", "PM", "a. m.", "p. m."}
DateText(shape, dom, hour, minute, frac, marker) ==
    [shape |-> shape, dom |-> dom, hour |-> hour, minute |-> minute,
     frac |-> frac, marker |-> marker]

DomsTyped == {11, 28, 31}
HoursTyped == 0 .. 24
MinutesTyped == {20, 60}
DateStrings ==
    {DateText(sh, 0, 0, 0, 0, "") : sh \in {"", " ", "?"}}
    \cup {DateText(sh, d, 0, 0, 0, "") : sh \in DateShapes, d \in DomsTyped}
    \cup {DateText(sh, d, h, m, 0, "") :
            sh \in TimeShapes \ {"%Y-%m-%d %H:%M:%S.%f"},
            d \in DomsTyped, h \in HoursTyped, m \in MinutesTyped}
    \cup {DateText("%Y-%m-%d %H:%M:%S.%f", d, h, m, 5, "") :
            d \in DomsTyped, h \in HoursTyped, m \in MinutesTyped}
    \cup {DateText("%d/%m/%Y %H:%M", d, h, m, 0, k) :
            d \in DomsTyped, h \in HoursTyped, m \in MinutesTyped, k \in Markers \ {""}}

\* a datetime by its fields; tzinfo is "" for a naive one
Datetime(dom, hour, minute, microsecond, tzinfo) ==
    [dom |-> dom, hour |-> hour, minute |-> minute,
     microsecond |-> microsecond, tzinfo |-> tzinfo]

\* the range check of datetime(...) and of strptime: February 2025 has 28 days
InRange(dom, hour, minute) ==
    dom \in 1 .. 28 /\ hour \in 0 .. 23 /\ minute \in 0 .. 59

\* the function returns v, or raises ValueError
Return(v) == [called |-> TRUE, raised |-> FALSE, value |-> v]
Raise == [called |-> TRUE, raised |-> TRUE, value |-> None]

\* s = date_str.strip(): blanks only become the empty text
strip_text(t) == IF t.shape = " " THEN [t EXCEPT !.shape = ""] ELSE t

\* the two re.sub calls: 'a. m.' and 'p. m.' become 'AM' and 'PM', and the last
\* dot stays behind, as \b does not match after it
sub_ampm(marker) ==
    IF marker = "a. m." THEN [ampm |-> "AM", rest |-> "."]
    ELSE IF marker = "p. m." THEN [ampm |-> "PM", rest |-> "."]
    ELSE [ampm |-> marker, rest |-> ""]

formats ==
    << "%Y-%m-%d", "%Y-%m-%dT%H:%M", "%d/%m/%Y %H:%M", "%d/%m/%Y %I:%M %p",
       "%d/%m/%Y", "%Y-%m-%d %H:%M:%S", "%Y-%m-%d %H:%M:%S.%f" >>

\* datetime.strptime(s, fmt): the naive datetime read, or None for ValueError
strptime_format(t, fmt) ==
    LET m == sub_ampm(t.marker)
    IN  IF fmt = "%d/%m/%Y %I:%M %p"
        THEN IF /\ t.shape = "%d/%m/%Y %H:%M" /\ m.ampm # "" /\ m.rest = ""
                /\ t.hour \in 1 .. 12 /\ InRange(t.dom, 0, t.minute)
             THEN Some(Datetime(t.dom, (t.hour % 12) + (IF m.ampm = "PM" THEN 12 ELSE 0),
                                t.minute, 0, ""))
             ELSE None
        ELSE IF t.shape = fmt /\ t.marker = "" /\ InRange(t.dom, t.hour, t.minute)
             THEN Some(Datetime(t.dom, t.hour, t.minute, t.frac, ""))
             ELSE None

\* for fmt in formats: try strptime, stop at the first that reads the text
RECURSIVE try_formats(_, _)
try_formats(t, k) ==
    IF k > Len(formats) THEN None
    ELSE IF strptime_format(t, formats[k]) # None THEN strptime_format(t, formats[k])
    ELSE try_formats(t, k + 1)

\* the re.match of day/month/year hour:minute with AM or PM after it or not, and
\* the datetime(...) built from its groups, which raises when a field is out of range
heuristic(t) ==
    IF t.shape # "%d/%m/%Y %H:%M" THEN Return(None)
    ELSE LET ampm == sub_ampm(t.marker).ampm
             hh == IF ampm = "PM" /\ t.hour < 12 THEN t.hour + 12
                   ELSE IF ampm = "AM" /\ t.hour = 12 THEN 0
                   ELSE t.hour
         IN  IF InRange(t.dom, hh, t.minute)
             THEN Return(Some(Datetime(t.dom, hh, t.minute, 0, "")))
             ELSE Raise

\* parsed_date.replace(microsecond=0, tzinfo=LOCAL_TZ)
attach_local(result) ==
    IF result.raised \/ result.value = None THEN result
    ELSE Return(Some([Get(result.value) EXCEPT !.microsecond = 0, !.tzinfo = "LOCAL_TZ"]))

\* _parse_due_date_flexible(date_str), on the text as typed
parse_due_date_text(t) ==
    IF t.shape = "" THEN Return(None)
    ELSE LET s == strip_text(t)
             parsed_date == try_formats(s, 1)
         IN  IF parsed_date # None THEN attach_local(Return(parsed_date))
             ELSE attach_local(heuristic(s))

\* a call of the parser on a text
call_parse ==
    /\ ~parsed.called
    /\ date_str # None
    /\ parsed' = parse_due_date_text(Get(date_str))
    /\ UNCHANGED << tasks, clock, response, date_str, dst >>

InitParse ==
    /\ tasks = << >>
    /\ clock = FirstTick
    /\ response = Idle
    /\ date_str \in {Some(t) : t \in DateStrings}
    /\ parsed = NotCalled
    /\ dst = TRUE

NextParse == call_parse

SpecParse == InitParse /\ [][NextParse]_vars

\* a text that names a date, or a date and a time, in one of the known shapes
Parseable(t) ==
    /\ t.shape \in DateShapes \cup TimeShapes
    /\ t.dom \in 1 .. 28
    /\ t.hour <= 23
    /\ t.minute <= 59

\* what the parser owes a text for which it returns
ReturnsAsSpecified(t, value) ==
    /\ ~Parseable(t) => value = None
    /\ value # None => Get(value).microsecond = 0 /\ Get(value).tzinfo = "LOCAL_TZ"
    /\ (Parseable(t) /\ t.shape \in DateShapes) =>
          /\ value # None
          /\ Get(value).dom = t.dom /\ Get(value).hour = 0 /\ Get(value).minute = 0
    /\ (Parseable(t) /\ t.marker \in {"PM", "p. m."} /\ t.hour < 12) =>
          value # None /\ Get(value).hour = t.hour + 12
    /\ (Parseable(t) /\ t.marker \in {"PM", "p. m."} /\ t.hour = 12) =>
          value # None /\ Get(value).hour = 12
    /\ (Parseable(t) /\ t.marker \in {"AM", "a. m."} /\ t.hour = 12) =>
          value # None /\ Get(value).hour = 0

\* C11: _parse_due_date_flexible returns None for an empty input and for any
\* input matching none of its formats; every other result has zero microseconds
\* and the local time zone; a date alone gives midnight of that day; a 12-hour
\* input maps h PM to h+12 when h < 12, 12 PM to 12 and 12 AM to 0.
C11_ParseContract ==
    parsed.called =>
        /\ ~parsed.raised
        /\ ReturnsAsSpecified(Get(date_str), parsed.value)

\* C11, for the texts on which the parser returns: all of the above holds
C11_WhenItReturns ==
    (parsed.called /\ ~parsed.raised) => ReturnsAsSpecified(Get(date_str), parsed.value)

\* the parser raised on a text with a field out of range
C11_Raises == parsed.called /\ parsed.raised => ~Parseable(Get(date_str))

\* ---------------------------------------------------------------- the overdue class over time
\* the step is a request that was answered for task i by handler op
Answered(op, i) ==
    response = Idle /\ response'.op = op /\ response'.task_id = i /\ response'.status # 404

\* task i is in the overdue class: get_overdue_tasks selects it
InOverdue(rows, now, i) == i \in get_overdue_tasks(rows, now, "date")

\* C12: as time advances with no request changing it, a task that is not
\* completed and has a due date becomes overdue once the current time has
\* passed the due date and then stays overdue; it leaves the overdue class only
\* through a toggle or an edit that completes it, an edit that changes its due
\* date, or a delete; a task without a due date and a completed task are never
\* overdue.
C12_OverdueClass ==
    [][\A i \in DOMAIN tasks :
          LET row == tasks[i]
          IN  /\ (tasks' = tasks /\ clock' # clock) =>
                    /\ InOverdue(tasks, clock, i) => InOverdue(tasks', clock', i)
                    /\ (~row.completed /\ row.due_date # None
                            /\ DueSecond(row) < SecondOf(clock')) =>
                          InOverdue(tasks', clock', i) /\ is_overdue(Load(row), clock')
              /\ (InOverdue(tasks, clock, i)
                    /\ ~(i \in DOMAIN tasks' /\ InOverdue(tasks', clock', i))) =>
                    \/ Answered("task_toggle", i) /\ tasks'[i].completed
                    \/ Answered("task_edit", i)
                          /\ (tasks'[i].completed \/ tasks'[i].due_date # row.due_date)
                    \/ Answered("task_delete", i) /\ i \notin DOMAIN tasks'
              /\ (row.due_date = None \/ row.completed) =>
                    ~is_overdue(Load(row), clock) /\ ~InOverdue(tasks, clock, i)]_vars

\* ---------------------------------------------------------------- stored titles
\* C13: in every state reached by create, edit, toggle and delete requests,
\* every stored task has a title that is not empty and has no whitespace at
\* its start or at its end.
C13_StoredTitles ==
    \A i \in DOMAIN tasks :
        LET title == tasks[i].title
        IN  /\ title # << >>
            /\ ~IsSpace(title[1])
            /\ ~IsSpace(title[Len(title)])

\* a task was edited with an accepted title while another task is stored, one
\* of them completed
C13_Witness ==
    /\ response.op = "task_edit"
    /\ response.flash = Updated
    /\ Cardinality(DOMAIN tasks) > 1
    /\ \E i \in DOMAIN tasks : tasks[i].completed

====
